---- MODULE Spec2Model ----
(***************************************************************************)
(* ClawX main-process services: the credential store                       *)
(* (electron/utils/secure-storage.ts) and the update controller            *)
(* (electron/main/updater.ts).                                             *)
(*                                                                         *)
(* JavaScript strings are sequences of UTF-16 code units, Buffers are      *)
(* sequences of bytes.  Both are modelled as sequences of naturals.        *)
(***************************************************************************)
EXTENDS Integers, Sequences, FiniteSets, TLC

(***************************************************************************)
(* Text: code units, UTF-8, base64                                         *)
(***************************************************************************)

\* printable ASCII, code 32 (space) .. 126 (~)
AsciiTable ==
  << " ", "!", "<dquote>", "#", "$", "%", "&", "'", "(", ")", "*", "+", ",", "-", ".", "/",
     "0", "1", "2", "3", "4", "5", "6", "7", "8", "9", ":", ";", "<", "=", ">", "?",
     "@", "A", "B", "C", "D", "E", "F", "G", "H", "I", "J", "K", "L", "M", "N", "O",
     "P", "Q", "R", "S", "T", "U", "V", "W", "X", "Y", "Z", "[", "<bslash>", "]", "^", "_",
     "<grave>", "a", "b", "c", "d", "e", "f", "g", "h", "i", "j", "k", "l", "m", "n", "o",
     "p", "q", "r", "s", "t", "u", "v", "w", "x", "y", "z", "{", "|", "}", "~" >>

CharCode(c) == 31 + (CHOOSE i \in 1..Len(AsciiTable) : AsciiTable[i] = c)

\* the code units of a string literal given character by character
Codes(chars) == [i \in 1..Len(chars) |-> CharCode(chars[i])]

Star == CharCode("*")

\* String.prototype.repeat for a one-character string
Repeat(c, n) == [i \in 1..n |-> c]

\* String.prototype.substring(a, b) for 0 <= a <= b <= length
Substring(s, a, b) == [i \in 1..(b - a) |-> s[a + i]]

ReplacementChar == 65533

IsHighSurrogate(u) == u >= 55296 /\ u <= 56319
IsLowSurrogate(u) == u >= 56320 /\ u <= 57343

\* the UTF-8 bytes of one code point
Utf8OfCodePoint(cp) ==
  IF cp < 128 THEN << cp >>
  ELSE IF cp < 2048 THEN << 192 + (cp \div 64), 128 + (cp % 64) >>
  ELSE IF cp < 65536
    THEN << 224 + (cp \div 4096), 128 + ((cp \div 64) % 64), 128 + (cp % 64) >>
  ELSE << 240 + (cp \div 262144), 128 + ((cp \div 4096) % 64),
          128 + ((cp \div 64) % 64), 128 + (cp % 64) >>

\* Buffer.from(str) / the string argument of encryptString: UTF-16 to UTF-8,
\* an unpaired surrogate becomes U+FFFD
RECURSIVE Utf8Encode(_)
Utf8Encode(s) ==
  IF Len(s) = 0 THEN << >>
  ELSE IF IsHighSurrogate(s[1]) /\ Len(s) >= 2 /\ IsLowSurrogate(s[2])
    THEN Utf8OfCodePoint(65536 + (s[1] - 55296) * 1024 + (s[2] - 56320))
           \o Utf8Encode(SubSeq(s, 3, Len(s)))
  ELSE IF IsHighSurrogate(s[1]) \/ IsLowSurrogate(s[1])
    THEN Utf8OfCodePoint(ReplacementChar) \o Utf8Encode(Tail(s))
  ELSE Utf8OfCodePoint(s[1]) \o Utf8Encode(Tail(s))

IsCont(b) == b >= 128 /\ b <= 191

\* the UTF-16 code units of one code point
Utf16OfCodePoint(cp) ==
  IF cp < 65536 THEN << cp >>
  ELSE << 55296 + ((cp - 65536) \div 1024), 56320 + ((cp - 65536) % 1024) >>

\* buf.toString('utf-8'): an ill-formed byte decodes to U+FFFD
RECURSIVE Utf8Decode(_)
Utf8Decode(b) ==
  IF Len(b) = 0 THEN << >>
  ELSE IF b[1] < 128 THEN << b[1] >> \o Utf8Decode(Tail(b))
  ELSE IF b[1] >= 194 /\ b[1] <= 223 /\ Len(b) >= 2 /\ IsCont(b[2])
    THEN << (b[1] - 192) * 64 + (b[2] - 128) >> \o Utf8Decode(SubSeq(b, 3, Len(b)))
  ELSE IF b[1] >= 224 /\ b[1] <= 239 /\ Len(b) >= 3 /\ IsCont(b[2]) /\ IsCont(b[3])
          /\ (b[1] - 224) * 4096 + (b[2] - 128) * 64 + (b[3] - 128) >= 2048
          /\ ~IsHighSurrogate((b[1] - 224) * 4096 + (b[2] - 128) * 64 + (b[3] - 128))
          /\ ~IsLowSurrogate((b[1] - 224) * 4096 + (b[2] - 128) * 64 + (b[3] - 128))
    THEN << (b[1] - 224) * 4096 + (b[2] - 128) * 64 + (b[3] - 128) >>
           \o Utf8Decode(SubSeq(b, 4, Len(b)))
  ELSE IF b[1] >= 240 /\ b[1] <= 244 /\ Len(b) >= 4
          /\ IsCont(b[2]) /\ IsCont(b[3]) /\ IsCont(b[4])
          /\ (b[1] - 240) * 262144 + (b[2] - 128) * 4096
               + (b[3] - 128) * 64 + (b[4] - 128) >= 65536
          /\ (b[1] - 240) * 262144 + (b[2] - 128) * 4096
               + (b[3] - 128) * 64 + (b[4] - 128) <= 1114111
    THEN Utf16OfCodePoint((b[1] - 240) * 262144 + (b[2] - 128) * 4096
                            + (b[3] - 128) * 64 + (b[4] - 128))
           \o Utf8Decode(SubSeq(b, 5, Len(b)))
  ELSE << ReplacementChar >> \o Utf8Decode(Tail(b))

\* the base64 alphabet, value 0 is at index 1
B64Alphabet ==
  Codes(<< "A", "B", "C", "D", "E", "F", "G", "H", "I", "J", "K", "L", "M", "N", "O", "P",
           "Q", "R", "S", "T", "U", "V", "W", "X", "Y", "Z", "a", "b", "c", "d", "e", "f",
           "g", "h", "i", "j", "k", "l", "m", "n", "o", "p", "q", "r", "s", "t", "u", "v",
           "w", "x", "y", "z", "0", "1", "2", "3", "4", "5", "6", "7", "8", "9", "+", "/" >>)

B64Char(v) == B64Alphabet[v + 1]

B64Pad == CharCode("=")

\* buf.toString('base64')
RECURSIVE Base64Encode(_)
Base64Encode(b) ==
  IF Len(b) = 0 THEN << >>
  ELSE IF Len(b) = 1
    THEN << B64Char(b[1] \div 4), B64Char((b[1] % 4) * 16), B64Pad, B64Pad >>
  ELSE IF Len(b) = 2
    THEN << B64Char(b[1] \div 4), B64Char((b[1] % 4) * 16 + (b[2] \div 16)),
            B64Char((b[2] % 16) * 4), B64Pad >>
  ELSE << B64Char(b[1] \div 4), B64Char((b[1] % 4) * 16 + (b[2] \div 16)),
          B64Char((b[2] % 16) * 4 + (b[3] \div 64)), B64Char(b[3] % 64) >>
         \o Base64Encode(SubSeq(b, 4, Len(b)))

IsB64Char(u) == \E i \in 1..64 : B64Alphabet[i] = u

B64Value(u) == (CHOOSE i \in 1..64 : B64Alphabet[i] = u) - 1

\* the base64 digits of a string up to its first '=', other characters skipped
RECURSIVE B64Digits(_)
B64Digits(s) ==
  IF Len(s) = 0 \/ s[1] = B64Pad THEN << >>
  ELSE IF IsB64Char(s[1]) THEN << B64Value(s[1]) >> \o B64Digits(Tail(s))
  ELSE B64Digits(Tail(s))

RECURSIVE B64Bytes(_)
B64Bytes(d) ==
  IF Len(d) < 2 THEN << >>
  ELSE IF Len(d) = 2 THEN << d[1] * 4 + (d[2] \div 16) >>
  ELSE IF Len(d) = 3
    THEN << d[1] * 4 + (d[2] \div 16), (d[2] % 16) * 16 + (d[3] \div 4) >>
  ELSE << d[1] * 4 + (d[2] \div 16), (d[2] % 16) * 16 + (d[3] \div 4),
          (d[3] % 4) * 64 + d[4] >>
         \o B64Bytes(SubSeq(d, 5, Len(d)))

\* Buffer.from(str, 'base64')
Base64Decode(s) == B64Bytes(B64Digits(s))

(***************************************************************************)
(* Plain JavaScript objects used as maps: own properties in insertion      *)
(* order, each entry a record [k, v].                                      *)
(***************************************************************************)

ObjHas(obj, k) == \E i \in 1..Len(obj) : obj[i].k = k

ObjIndex(obj, k) == CHOOSE i \in 1..Len(obj) : obj[i].k = k

\* obj[k], only used where ObjHas(obj, k)
ObjGet(obj, k) == obj[ObjIndex(obj, k)].v

\* obj[k] = v : an existing property keeps its place, a new one goes last
ObjSet(obj, k, v) ==
  IF ObjHas(obj, k)
    THEN [obj EXCEPT ![ObjIndex(obj, k)] = [k |-> k, v |-> v]]
    ELSE Append(obj, [k |-> k, v |-> v])

\* delete obj[k]
ObjDelete(obj, k) ==
  IF ObjHas(obj, k)
    THEN SubSeq(obj, 1, ObjIndex(obj, k) - 1) \o SubSeq(obj, ObjIndex(obj, k) + 1, Len(obj))
    ELSE obj

\* Object.keys(obj)
ObjKeys(obj) == [i \in 1..Len(obj) |-> obj[i].k]

\* Object.values(obj)
ObjValues(obj) == [i \in 1..Len(obj) |-> obj[i].v]

(***************************************************************************)
(* Electron safeStorage.  The platform cipher is outside the repository;   *)
(* it is modelled as a version prefix followed by a byte-wise bijection of *)
(* the UTF-8 plaintext, and decryption rejects a buffer without the prefix.*)
(***************************************************************************)

CipherPrefix == Codes(<< "v", "1", "0" >>)

Scramble(b) == (b * 5 + 17) % 256

Unscramble(b) == ((b + 239) * 205) % 256

\* safeStorage.encryptString(plain): a Buffer
EncryptString(plain) ==
  CipherPrefix \o [i \in 1..Len(Utf8Encode(plain)) |-> Scramble(Utf8Encode(plain)[i])]

HasCipherPrefix(buf) ==
  Len(buf) >= Len(CipherPrefix) /\ SubSeq(buf, 1, Len(CipherPrefix)) = CipherPrefix

\* safeStorage.decryptString(buf): ok = FALSE when it throws
DecryptString(buf) ==
  IF HasCipherPrefix(buf)
    THEN [ok |-> TRUE,
          v  |-> Utf8Decode([i \in 1..(Len(buf) - Len(CipherPrefix)) |->
                               Unscramble(buf[Len(CipherPrefix) + i])])]
    ELSE [ok |-> FALSE, v |-> << >>]

(***************************************************************************)
(* Credential store: the code of each function between its awaits, as a    *)
(* function of the persisted data it reads.  `fault` names the call of the  *)
(* backing store or of safeStorage that throws during this run, if any.    *)
(***************************************************************************)

NullVal == [kind |-> "null", s |-> << >>]

StrVal(s) == [kind |-> "str", s |-> s]

\* JavaScript truthiness of a string | null
Truthy(val) == val.kind = "str" /\ Len(val.s) > 0

\* storeApiKey setting a map that holds its own entry only
StoreApiKeyCodeFreshMap(keys, providerId, apiKey, available, fault) ==
  IF fault # "none"
    THEN [keys |-> keys, ret |-> FALSE]
    ELSE [keys |-> ObjSet(<< >>, providerId,
                          Base64Encode(IF available THEN EncryptString(apiKey)
                                                    ELSE Utf8Encode(apiKey))),
          ret  |-> TRUE]

\* storeApiKey after `await getStore()`
StoreApiKeyCode(keys, providerId, apiKey, available, fault) ==
  IF ~available
    THEN IF fault \in {"import", "read", "write"}
           THEN [keys |-> keys, ret |-> FALSE]
           ELSE [keys |-> ObjSet(keys, providerId, Base64Encode(Utf8Encode(apiKey))),
                 ret  |-> TRUE]
    ELSE IF fault \in {"import", "crypto", "read", "write"}
           THEN [keys |-> keys, ret |-> FALSE]
           ELSE [keys |-> ObjSet(keys, providerId, Base64Encode(EncryptString(apiKey))),
                 ret  |-> TRUE]

\* getApiKey as it would be if a failed decryption fell through to the plain decoding
GetApiKeyCodeDecodesOnFailure(keys, providerId, available, fault) ==
  IF fault \in {"import", "read"} THEN NullVal
  ELSE IF ~ObjHas(keys, providerId) THEN NullVal
  ELSE IF Len(ObjGet(keys, providerId)) = 0 THEN NullVal
  ELSE IF ~available
            \/ fault = "crypto"
            \/ ~DecryptString(Base64Decode(ObjGet(keys, providerId))).ok
    THEN StrVal(Utf8Decode(Base64Decode(ObjGet(keys, providerId))))
  ELSE StrVal(DecryptString(Base64Decode(ObjGet(keys, providerId))).v)

\* getApiKey after `await getStore()`
GetApiKeyCode(keys, providerId, available, fault) ==
  IF fault \in {"import", "read"} THEN NullVal
  ELSE IF ~ObjHas(keys, providerId) THEN NullVal
  ELSE IF Len(ObjGet(keys, providerId)) = 0 THEN NullVal
  ELSE IF ~available
    THEN StrVal(Utf8Decode(Base64Decode(ObjGet(keys, providerId))))
  ELSE IF fault = "crypto" \/ ~DecryptString(Base64Decode(ObjGet(keys, providerId))).ok
    THEN NullVal
  ELSE StrVal(DecryptString(Base64Decode(ObjGet(keys, providerId))).v)

\* deleteApiKey as it would be if a missing entry were reported as a failure
DeleteApiKeyCodeMissingFails(keys, providerId, fault) ==
  IF fault \in {"import", "read", "write"} \/ ~ObjHas(keys, providerId)
    THEN [keys |-> keys, ret |-> FALSE]
    ELSE [keys |-> ObjDelete(keys, providerId), ret |-> TRUE]

\* deleteApiKey after `await getStore()`
DeleteApiKeyCode(keys, providerId, fault) ==
  IF fault \in {"import", "read", "write"}
    THEN [keys |-> keys, ret |-> FALSE]
    ELSE [keys |-> ObjDelete(keys, providerId), ret |-> TRUE]

\* hasApiKey after `await getStore()`
HasApiKeyCode(keys, providerId) == ObjHas(keys, providerId)

\* listStoredKeyIds after `await getStore()`
ListStoredKeyIdsCode(keys) == ObjKeys(keys)

\* saveProvider after `await getProviderStore()`
SaveProviderCode(provs, config) == ObjSet(provs, config.id, config)

\* getProvider after `await getProviderStore()`: the config found, << >> for null
GetProviderCode(provs, providerId) ==
  IF ObjHas(provs, providerId) THEN << ObjGet(provs, providerId) >> ELSE << >>

\* getAllProviders after `await getProviderStore()`
GetAllProvidersCode(provs) == ObjValues(provs)

Undefined == "undefined"

\* deleteProvider as it would be without the check of the default provider
DeleteProviderCodeKeepsDefault(provs, dflt, providerId, fault) ==
  IF fault \in {"import", "read", "write"}
    THEN [providers |-> provs, defaultProvider |-> dflt, ret |-> FALSE]
    ELSE [providers |-> ObjDelete(provs, providerId), defaultProvider |-> dflt,
          ret |-> fault # "default"]

\* deleteProvider after `await getProviderStore()`
DeleteProviderCode(provs, dflt, providerId, fault) ==
  IF fault \in {"import", "read", "write"}
    THEN [providers |-> provs, defaultProvider |-> dflt, ret |-> FALSE]
  ELSE IF fault = "default"
    THEN [providers |-> ObjDelete(provs, providerId), defaultProvider |-> dflt,
          ret |-> FALSE]
  ELSE [providers |-> ObjDelete(provs, providerId),
        defaultProvider |-> IF dflt = providerId THEN Undefined ELSE dflt,
        ret |-> TRUE]

\* keyMasked as computed by getProviderWithKeyInfo
KeyMasked(apiKey) ==
  IF Truthy(apiKey)
    THEN IF Len(apiKey.s) > 12
           THEN StrVal(Substring(apiKey.s, 0, 4) \o Repeat(Star, Len(apiKey.s) - 8)
                         \o Substring(apiKey.s, Len(apiKey.s) - 4, Len(apiKey.s)))
           ELSE StrVal(Repeat(Star, Len(apiKey.s)))
    ELSE NullVal

\* the list variant as it would be with `>= 12` for `> 12`
KeyMaskedInListFromTwelve(apiKey) ==
  IF Truthy(apiKey)
    THEN IF Len(apiKey.s) >= 12
           THEN StrVal(Substring(apiKey.s, 0, 4) \o Repeat(Star, Len(apiKey.s) - 8)
                         \o Substring(apiKey.s, Len(apiKey.s) - 4, Len(apiKey.s)))
           ELSE StrVal(Repeat(Star, Len(apiKey.s)))
    ELSE NullVal

\* keyMasked as computed in the loop of getAllProvidersWithKeyInfo
KeyMaskedInList(apiKey) ==
  IF Truthy(apiKey)
    THEN IF Len(apiKey.s) > 12
           THEN StrVal(Substring(apiKey.s, 0, 4) \o Repeat(Star, Len(apiKey.s) - 8)
                         \o Substring(apiKey.s, Len(apiKey.s) - 4, Len(apiKey.s)))
           ELSE StrVal(Repeat(Star, Len(apiKey.s)))
    ELSE NullVal

\* the record returned by getProviderWithKeyInfo
KeyInfo(provider, apiKey) ==
  [id |-> provider.id, hasKey |-> Truthy(apiKey), keyMasked |-> KeyMasked(apiKey)]

\* the record pushed by getAllProvidersWithKeyInfo
KeyInfoInList(provider, apiKey) ==
  [id |-> provider.id, hasKey |-> Truthy(apiKey), keyMasked |-> KeyMaskedInList(apiKey)]

(***************************************************************************)
(* State                                                                   *)
(***************************************************************************)

\* ids as the settings page makes them: `${type}-${Date.now()}`
ProviderIds == {"anthropic-1", "openai-2"}

KeyEmpty == << >>

\* a 6-character key with a non-ASCII character
KeyShort == Codes(<< "p", "a", "s", "s" >>) \o << 233, 8364 >>

KeyTest ==
  Codes(<< "s", "k", "-", "t", "e", "s", "t", "-",
           "1", "2", "3", "4", "5", "6", "7", "8", "9", "0" >>)

Keys == {KeyEmpty, KeyShort, KeyTest}

\* calls of the credential store that may be in progress at once
MaxInFlight == 2

Slots == 1..MaxInFlight

VARIABLES
  encryptedKeys,        \* clawx-secure: the 'encryptedKeys' object
  providers,            \* clawx-providers: the 'providers' object
  defaultProvider,      \* clawx-providers: 'defaultProvider', or Undefined
  store,                \* module variable `store`: 0 is null, n the n-th Store made
  providerStore,        \* module variable `providerStore`, likewise
  encryptionAvailable,  \* what safeStorage.isEncryptionAvailable() returns
  calls,                \* the calls in progress, each suspended at an await; raced:
                        \* a storeApiKey of the same id (and, for a storeApiKey,
                        \* another key), in progress at the same time as this
                        \* call, has returned true; deleted: so has a
                        \* deleteProvider of the same id; crossed: so has a
                        \* storeApiKey or a deleteApiKey of another id
  last,                 \* the call that completed last, what it returned and the
                        \* first call of a store or of safeStorage that threw in it
  written               \* per id, the key and the mode of the last successful
                        \* storeApiKey since the id's entry was last removed, and
                        \* whether that call was raced

storeVars ==
  << encryptedKeys, providers, defaultProvider, store, providerStore,
     encryptionAvailable, calls, last, written >>

IdleCall ==
  [op |-> "idle", id |-> "", key |-> << >>, pc |-> "", fault |-> "none",
   again |-> FALSE, hadKey |-> FALSE, hadConfig |-> FALSE, wasDefault |-> FALSE,
   prov |-> << >>, todo |-> << >>, infos |-> << >>, raced |-> FALSE,
   deleted |-> FALSE, crossed |-> FALSE]

NoResult ==
  [op |-> "none", id |-> "", key |-> << >>, threw |-> FALSE, ok |-> FALSE,
   val |-> NullVal, ids |-> << >>, cfgs |-> << >>, infos |-> << >>,
   fault |-> "none", again |-> FALSE, hadKey |-> FALSE, hadConfig |-> FALSE,
   wasDefault |-> FALSE, raced |-> FALSE, deleted |-> FALSE, crossed |-> FALSE]

NotWritten == [set |-> FALSE, key |-> << >>, available |-> FALSE, raced |-> FALSE]

StoreInit ==
  /\ encryptedKeys = << >>
  /\ providers = << >>
  /\ defaultProvider = Undefined
  /\ store = 0
  /\ providerStore = 0
  /\ encryptionAvailable \in BOOLEAN
  /\ calls = [c \in Slots |-> IdleCall]
  /\ last = NoResult
  /\ written = [id \in ProviderIds |-> NotWritten]

KeyStoreOps == {"storeApiKey", "getApiKey", "deleteApiKey", "hasApiKey", "listStoredKeyIds"}

ProviderStoreOps ==
  {"saveProvider", "getProvider", "getAllProviders", "setDefaultProvider",
   "getDefaultProvider", "getProviderWithKeyInfo", "getAllProvidersWithKeyInfo"}

\* getStore() up to its await: the import is pending when `store` is null
EnterGetStore == IF store = 0 THEN "importStore" ELSE "getStore"

\* getProviderStore() up to its await
EnterGetProviderStore ==
  IF providerStore = 0 THEN "importProviderStore" ELSE "getProviderStore"

Busy(c) == calls[c].op # "idle"

Quiescent == \A c \in Slots : ~Busy(c)

FreeSlot == CHOOSE c \in Slots : ~Busy(c) /\ \A d \in Slots : d < c => Busy(d)

NewCall(op, id, key) ==
  [IdleCall EXCEPT
     !.op = op, !.id = id, !.key = key,
     !.pc = IF op \in ProviderStoreOps THEN EnterGetProviderStore ELSE EnterGetStore,
     !.again = op \in {"storeApiKey", "deleteApiKey"}
                 /\ last.op = op /\ last.id = id /\ last.ok,
     !.hadKey = op = "deleteProvider" /\ ObjHas(encryptedKeys, id),
     !.hadConfig = op = "deleteProvider" /\ ObjHas(providers, id),
     !.wasDefault = op = "deleteProvider" /\ defaultProvider = id]

Begin(op, id, key) ==
  /\ \E c \in Slots : ~Busy(c)
  /\ calls' = [calls EXCEPT ![FreeSlot] = NewCall(op, id, key)]
  /\ last' = NoResult
  /\ UNCHANGED << encryptedKeys, providers, defaultProvider, store, providerStore,
                  encryptionAvailable, written >>

BeginAny ==
  \/ \E id \in ProviderIds, key \in Keys : Begin("storeApiKey", id, key)
  \/ \E id \in ProviderIds,
        op \in {"getApiKey", "deleteApiKey", "hasApiKey", "saveProvider", "getProvider",
                "deleteProvider", "setDefaultProvider", "getProviderWithKeyInfo"} :
       Begin(op, id, << >>)
  \/ \E op \in {"listStoredKeyIds", "getAllProviders", "getDefaultProvider",
                "getAllProvidersWithKeyInfo"} :
       Begin(op, "", << >>)

\* a function of the credential store is called while none is in progress
Invoke == Quiescent /\ BeginAny

\* calls made in a run in which calls overlap
MaxCalls == 2

VARIABLE
  invoked               \* how many such calls have been made

\* a writing function of the credential store is called, whatever is in progress
InvokeWriting ==
  /\ invoked < MaxCalls
  /\ invoked' = invoked + 1
  /\ \/ \E id \in ProviderIds, key \in Keys : Begin("storeApiKey", id, key)
     \/ \E id \in ProviderIds, op \in {"deleteApiKey", "saveProvider", "deleteProvider"} :
          Begin(op, id, << >>)

\* the platform's encryption becomes available (app ready, keyring unlocked)
EncryptionBecomesAvailable ==
  /\ ~encryptionAvailable
  /\ encryptionAvailable' = TRUE
  /\ UNCHANGED << encryptedKeys, providers, defaultProvider, store, providerStore,
                  calls, last, written >>

\* getStore() after `await import('electron-store')`: a Store is made
ImportStore(c) ==
  /\ calls[c].pc = "importStore"
  /\ store' = store + 1
  /\ calls' = [calls EXCEPT ![c].pc = "getStore"]
  /\ UNCHANGED << encryptedKeys, providers, defaultProvider, providerStore,
                  encryptionAvailable, last, written >>

\* getProviderStore() after `await import('electron-store')`
ImportProviderStore(c) ==
  /\ calls[c].pc = "importProviderStore"
  /\ providerStore' = providerStore + 1
  /\ calls' = [calls EXCEPT ![c].pc = "getProviderStore"]
  /\ UNCHANGED << encryptedKeys, providers, defaultProvider, store,
                  encryptionAvailable, last, written >>

\* the call is resumed after `await getStore()`
AtStore(c, op) == calls[c].op = op /\ calls[c].pc \in {"getStore", "importStore"}

\* the call is resumed after `await getProviderStore()`
AtProviderStore(c, op) ==
  calls[c].op = op /\ calls[c].pc \in {"getProviderStore", "importProviderStore"}

\* what can throw in this run: the pending import, or one of `these`
FaultsAt(c, these) ==
  IF calls[c].pc \in {"importStore", "importProviderStore"}
    THEN {"import"}
    ELSE {"none"} \cup these

Result(c, fault) ==
  [NoResult EXCEPT
     !.op = calls[c].op, !.id = calls[c].id, !.key = calls[c].key,
     !.fault = IF calls[c].fault # "none" THEN calls[c].fault ELSE fault,
     !.again = calls[c].again, !.hadKey = calls[c].hadKey,
     !.hadConfig = calls[c].hadConfig,
     !.wasDefault = calls[c].wasDefault,
     !.raced = calls[c].raced, !.deleted = calls[c].deleted,
     !.crossed = calls[c].crossed]

Return(c, result) ==
  /\ calls' = [calls EXCEPT ![c] = IdleCall]
  /\ last' = result

\* decryptString is reached by getApiKey(providerId)
ReachesDecrypt(providerId) ==
  /\ encryptionAvailable
  /\ ObjHas(encryptedKeys, providerId)
  /\ Len(ObjGet(encryptedKeys, providerId)) > 0

GetApiKeyFaults(providerId) ==
  {"read"} \cup (IF ReachesDecrypt(providerId) THEN {"crypto"} ELSE {})

(***************************************************************************)
(* Credential store: the functions, from the await on getStore() or        *)
(* getProviderStore() to the return                                        *)
(***************************************************************************)

StoreApiKey(c) ==
  /\ AtStore(c, "storeApiKey")
  /\ \E fault \in FaultsAt(c, {"read", "write"}
                               \cup (IF encryptionAvailable THEN {"crypto"} ELSE {})) :
       LET r == StoreApiKeyCode(encryptedKeys, calls[c].id, calls[c].key,
                                encryptionAvailable, fault)
       IN /\ encryptedKeys' = r.keys
          /\ written' = [written EXCEPT ![calls[c].id] =
                           IF r.ret
                             THEN [set |-> TRUE, key |-> calls[c].key,
                                   available |-> encryptionAvailable,
                                   raced |-> calls[c].raced]
                             ELSE written[calls[c].id]]
          /\ calls' = [d \in Slots |->
                         IF d = c THEN IdleCall
                         ELSE IF /\ r.ret
                                 /\ calls[d].id = calls[c].id
                                 /\ \/ calls[d].op = "deleteProvider"
                                    \/ calls[d].op = "storeApiKey"
                                         /\ calls[d].key # calls[c].key
                           THEN [calls[d] EXCEPT !.raced = TRUE]
                         ELSE IF /\ r.ret
                                 /\ calls[d].id # calls[c].id
                                 /\ calls[d].op \in {"storeApiKey", "deleteApiKey"}
                           THEN [calls[d] EXCEPT !.crossed = TRUE]
                           ELSE calls[d]]
          /\ last' = [Result(c, fault) EXCEPT !.ok = r.ret]
  /\ UNCHANGED << providers, defaultProvider, store, providerStore, encryptionAvailable >>

GetApiKey(c) ==
  /\ AtStore(c, "getApiKey")
  /\ \E fault \in FaultsAt(c, GetApiKeyFaults(calls[c].id)) :
       Return(c, [Result(c, fault) EXCEPT
                    !.val = GetApiKeyCode(encryptedKeys, calls[c].id,
                                          encryptionAvailable, fault)])
  /\ UNCHANGED << encryptedKeys, providers, defaultProvider, store, providerStore,
                  encryptionAvailable, written >>

DeleteApiKey(c) ==
  /\ AtStore(c, "deleteApiKey")
  /\ \E fault \in FaultsAt(c, {"read", "write"}) :
       LET r == DeleteApiKeyCode(encryptedKeys, calls[c].id, fault)
       IN /\ encryptedKeys' = r.keys
          /\ written' = [written EXCEPT ![calls[c].id] =
                           IF r.ret THEN NotWritten ELSE written[calls[c].id]]
          /\ calls' = [d \in Slots |->
                         IF d = c THEN IdleCall
                         ELSE IF /\ r.ret
                                 /\ calls[d].id # calls[c].id
                                 /\ calls[d].op \in {"storeApiKey", "deleteApiKey"}
                           THEN [calls[d] EXCEPT !.crossed = TRUE]
                           ELSE calls[d]]
          /\ last' = [Result(c, fault) EXCEPT !.ok = r.ret]
  /\ UNCHANGED << providers, defaultProvider, store, providerStore, encryptionAvailable >>

HasApiKey(c) ==
  /\ AtStore(c, "hasApiKey")
  /\ \E fault \in FaultsAt(c, {"read"}) :
       Return(c, IF fault = "none"
                   THEN [Result(c, fault) EXCEPT
                           !.ok = HasApiKeyCode(encryptedKeys, calls[c].id)]
                   ELSE [Result(c, fault) EXCEPT !.threw = TRUE])
  /\ UNCHANGED << encryptedKeys, providers, defaultProvider, store, providerStore,
                  encryptionAvailable, written >>

ListStoredKeyIds(c) ==
  /\ AtStore(c, "listStoredKeyIds")
  /\ \E fault \in FaultsAt(c, {"read"}) :
       Return(c, IF fault = "none"
                   THEN [Result(c, fault) EXCEPT !.ids = ListStoredKeyIdsCode(encryptedKeys)]
                   ELSE [Result(c, fault) EXCEPT !.threw = TRUE])
  /\ UNCHANGED << encryptedKeys, providers, defaultProvider, store, providerStore,
                  encryptionAvailable, written >>

SaveProvider(c) ==
  /\ AtProviderStore(c, "saveProvider")
  /\ \E fault \in FaultsAt(c, {"read", "write"}) :
       /\ providers' = IF fault = "none"
                         THEN SaveProviderCode(providers, [id |-> calls[c].id])
                         ELSE providers
       /\ Return(c, [Result(c, fault) EXCEPT !.threw = fault # "none"])
  /\ UNCHANGED << encryptedKeys, defaultProvider, store, providerStore,
                  encryptionAvailable, written >>

GetProvider(c) ==
  /\ AtProviderStore(c, "getProvider")
  /\ \E fault \in FaultsAt(c, {"read"}) :
       Return(c, IF fault = "none"
                   THEN [Result(c, fault) EXCEPT
                           !.cfgs = GetProviderCode(providers, calls[c].id)]
                   ELSE [Result(c, fault) EXCEPT !.threw = TRUE])
  /\ UNCHANGED << encryptedKeys, providers, defaultProvider, store, providerStore,
                  encryptionAvailable, written >>

GetAllProviders(c) ==
  /\ AtProviderStore(c, "getAllProviders")
  /\ \E fault \in FaultsAt(c, {"read"}) :
       Return(c, IF fault = "none"
                   THEN [Result(c, fault) EXCEPT !.cfgs = GetAllProvidersCode(providers)]
                   ELSE [Result(c, fault) EXCEPT !.threw = TRUE])
  /\ UNCHANGED << encryptedKeys, providers, defaultProvider, store, providerStore,
                  encryptionAvailable, written >>

\* deleteProvider removing the config where it should remove the key
DeleteProviderKeyRemovesConfig(c) ==
  /\ AtStore(c, "deleteProvider")
  /\ providers' = ObjDelete(providers, calls[c].id)
  /\ calls' = [calls EXCEPT ![c].pc = EnterGetProviderStore]
  /\ UNCHANGED << encryptedKeys, written, defaultProvider, store, providerStore,
                  encryptionAvailable, last >>

\* deleteProvider: `await deleteApiKey(providerId)`, whose result is not looked at
DeleteProviderKey(c) ==
  /\ AtStore(c, "deleteProvider")
  /\ \E fault \in FaultsAt(c, {"read", "write"}) :
       /\ encryptedKeys' = DeleteApiKeyCode(encryptedKeys, calls[c].id, fault).keys
       /\ written' = [written EXCEPT ![calls[c].id] =
                        IF DeleteApiKeyCode(encryptedKeys, calls[c].id, fault).ret
                          THEN NotWritten ELSE written[calls[c].id]]
       /\ calls' = [calls EXCEPT
                      ![c].pc = EnterGetProviderStore,
                      ![c].fault = fault]
  /\ UNCHANGED << providers, defaultProvider, store, providerStore,
                  encryptionAvailable, last >>

\* deleteProvider: from `await getProviderStore()` to the return
DeleteProviderConfig(c) ==
  /\ AtProviderStore(c, "deleteProvider")
  /\ \E fault \in FaultsAt(c, {"read", "write", "default"}) :
       LET r == DeleteProviderCode(providers, defaultProvider, calls[c].id, fault)
       IN /\ providers' = r.providers
          /\ defaultProvider' = r.defaultProvider
          /\ calls' = [d \in Slots |->
                         IF d = c THEN IdleCall
                         ELSE IF r.ret /\ calls[d].op = "storeApiKey"
                                 /\ calls[d].id = calls[c].id
                           THEN [calls[d] EXCEPT !.deleted = TRUE]
                           ELSE calls[d]]
          /\ last' = [Result(c, fault) EXCEPT !.ok = r.ret]
  /\ UNCHANGED << encryptedKeys, store, providerStore, encryptionAvailable, written >>

SetDefaultProvider(c) ==
  /\ AtProviderStore(c, "setDefaultProvider")
  /\ \E fault \in FaultsAt(c, {"write"}) :
       /\ defaultProvider' = IF fault = "none" THEN calls[c].id ELSE defaultProvider
       /\ Return(c, [Result(c, fault) EXCEPT !.threw = fault # "none"])
  /\ UNCHANGED << encryptedKeys, providers, store, providerStore,
                  encryptionAvailable, written >>

GetDefaultProvider(c) ==
  /\ AtProviderStore(c, "getDefaultProvider")
  /\ \E fault \in FaultsAt(c, {"read"}) :
       Return(c, IF fault = "none"
                   THEN [Result(c, fault) EXCEPT !.ids = << defaultProvider >>]
                   ELSE [Result(c, fault) EXCEPT !.threw = TRUE])
  /\ UNCHANGED << encryptedKeys, providers, defaultProvider, store, providerStore,
                  encryptionAvailable, written >>

\* getProviderWithKeyInfo: `await getProvider(providerId)` and the null check
KeyInfoProvider(c) ==
  /\ AtProviderStore(c, "getProviderWithKeyInfo")
  /\ \E fault \in FaultsAt(c, {"read"}) :
       IF fault # "none"
         THEN Return(c, [Result(c, fault) EXCEPT !.threw = TRUE])
         ELSE IF GetProviderCode(providers, calls[c].id) = << >>
           THEN Return(c, Result(c, fault))
           ELSE /\ calls' = [calls EXCEPT
                               ![c].prov = GetProviderCode(providers, calls[c].id),
                               ![c].pc = EnterGetStore]
                /\ last' = last
  /\ UNCHANGED << encryptedKeys, providers, defaultProvider, store, providerStore,
                  encryptionAvailable, written >>

\* getProviderWithKeyInfo: from `await getApiKey(providerId)` to the return
KeyInfoKey(c) ==
  /\ AtStore(c, "getProviderWithKeyInfo")
  /\ \E fault \in FaultsAt(c, GetApiKeyFaults(calls[c].id)) :
       Return(c, [Result(c, fault) EXCEPT
                    !.infos = << KeyInfo(calls[c].prov[1],
                                         GetApiKeyCode(encryptedKeys, calls[c].id,
                                                       encryptionAvailable, fault)) >>])
  /\ UNCHANGED << encryptedKeys, providers, defaultProvider, store, providerStore,
                  encryptionAvailable, written >>

\* getAllProvidersWithKeyInfo: `await getAllProviders()`
AllKeyInfoProviders(c) ==
  /\ AtProviderStore(c, "getAllProvidersWithKeyInfo")
  /\ \E fault \in FaultsAt(c, {"read"}) :
       IF fault # "none"
         THEN Return(c, [Result(c, fault) EXCEPT !.threw = TRUE])
         ELSE IF GetAllProvidersCode(providers) = << >>
           THEN Return(c, Result(c, fault))
           ELSE /\ calls' = [calls EXCEPT
                               ![c].todo = GetAllProvidersCode(providers),
                               ![c].pc = EnterGetStore]
                /\ last' = last
  /\ UNCHANGED << encryptedKeys, providers, defaultProvider, store, providerStore,
                  encryptionAvailable, written >>

\* getAllProvidersWithKeyInfo: one turn of the loop, `await getApiKey(provider.id)`
AllKeyInfoKey(c) ==
  /\ AtStore(c, "getAllProvidersWithKeyInfo")
  /\ \E fault \in FaultsAt(c, GetApiKeyFaults(Head(calls[c].todo).id)) :
       LET info == KeyInfoInList(Head(calls[c].todo),
                                 GetApiKeyCode(encryptedKeys, Head(calls[c].todo).id,
                                               encryptionAvailable, fault))
       IN IF Len(calls[c].todo) = 1
            THEN Return(c, [Result(c, fault) EXCEPT
                              !.infos = Append(calls[c].infos, info)])
            ELSE /\ calls' = [calls EXCEPT
                                ![c].todo = Tail(calls[c].todo),
                                ![c].infos = Append(calls[c].infos, info),
                                ![c].fault = IF calls[c].fault # "none"
                                               THEN calls[c].fault ELSE fault,
                                ![c].pc = EnterGetStore]
                 /\ last' = last
  /\ UNCHANGED << encryptedKeys, providers, defaultProvider, store, providerStore,
                  encryptionAvailable, written >>

(***************************************************************************)
(* Update controller (AppUpdater) and the electron-updater client it       *)
(* listens to.  An optional field of a record is a sequence: << >> when    *)
(* the field is absent, << v >> when it is v.                              *)
(***************************************************************************)

Infos == {"1.1.0", "1.2.0"}

Progresses == {50, 100}

ErrorMessages == {"net::ERR_FAILED"}

NoUpdateMessage == "Please check update first"

NoInstallMessage == "No valid update available, can't quit and install"

Channels == {"stable", "beta", "dev"}

\* app.getVersion()
AppVersion == "0.1.0"

\* update:check and update:download requests that may await their result at once
MaxPending == 2

VARIABLES
  status,        \* AppUpdater.status, the record getStatus() returns
  mainWindow,    \* "null" before registerUpdateHandlers, then "open" or "destroyed"
  updater,       \* electron-updater: what it is doing, what it has found, its settings
  sent,          \* the messages the last updater event sent to the renderer
  quit,          \* quitAndInstall has ended the process
  pending,       \* the update:check and update:download requests awaiting their result
  replies,       \* what the last step returned to the ipcRenderer.invoke calls it settled
  handled        \* the last step: the request served, the method of electron-updater
                 \* it called, and the event of electron-updater whose listener ran

updaterVars == << status, mainWindow, updater, sent, quit, pending, replies, handled >>

StatusValues ==
  {"idle", "checking", "available", "not-available", "downloading", "downloaded", "error"}

\* payload: what electron-updater hands to the listener, << >> when nothing
Handled(request, call, event, payload) ==
  [request |-> request, call |-> call, event |-> event, payload |-> payload]

NoReply ==
  [request |-> "none", rejected |-> FALSE, success |-> FALSE, info |-> << >>,
   error |-> << >>, value |-> << >>]

\* n equal replies: the requests that awaited the same promise
Times(n, reply) == [i \in 1..n |-> reply]

\* String(error) of an Error with this message
StringOfError(message) == << "Error: ", message >>

UpdaterInit ==
  /\ status = [status |-> "idle", info |-> << >>, progress |-> << >>, error |-> << >>]
  /\ mainWindow = "null"
  /\ updater = [checking |-> FALSE, downloading |-> FALSE, found |-> << >>,
                downloaded |-> FALSE, channel |-> "null", autoDownload |-> FALSE]
  /\ sent = << >>
  /\ quit = FALSE
  /\ pending = [check |-> 0, download |-> 0]
  /\ replies = << >>
  /\ handled = Handled("none", "none", "none", << >>)

\* a Partial<UpdateStatus>: an absent field is a key the object literal does not have
Partial(st, info, progress, error) ==
  [status |-> st, info |-> info, progress |-> progress, error |-> error]

\* { ...this.status, ...newStatus }
Merge(old, new) ==
  [status   |-> new.status,
   info     |-> IF new.info # << >> THEN new.info ELSE old.info,
   progress |-> IF new.progress # << >> THEN new.progress ELSE old.progress,
   error    |-> IF new.error # << >> THEN new.error ELSE old.error]

\* sendToRenderer(channel, data) of the controller: what is sent, if anything
SendToRenderer(channel, record) ==
  IF mainWindow = "open"
    THEN << [channel |-> channel, record |-> << record >>, payload |-> << >>] >>
    ELSE << >>

\* a forwarder registered by registerUpdateHandlers: what is sent, if anything
Forward(channel, payload) ==
  IF mainWindow = "open"
    THEN << [channel |-> channel, record |-> << >>, payload |-> payload] >>
    ELSE << >>

\* updateStatus sending the partial status it was given instead of the record
UpdateStatusSendsPartial(newStatus, channel, payload) ==
  /\ status' = Merge(status, newStatus)
  /\ sent' = SendToRenderer("update:status-changed", newStatus)
               \o Forward(channel, payload)

\* a listener of setupListeners runs: updateStatus(newStatus), then this.emit(...)
\* which runs the forwarder of registerUpdateHandlers for `channel`
UpdateStatus(newStatus, channel, payload) ==
  /\ status' = Merge(status, newStatus)
  /\ sent' = SendToRenderer("update:status-changed", Merge(status, newStatus))
               \o Forward(channel, payload)

\* registerUpdateHandlers(updater, mainWindow)
RegisterUpdateHandlers ==
  /\ mainWindow = "null"
  /\ ~quit
  /\ mainWindow' = "open"
  /\ replies' = << >>
  /\ handled' = Handled("none", "none", "none", << >>)
  /\ UNCHANGED << status, updater, sent, quit, pending >>

\* the main window is closed
WindowDestroyed ==
  /\ mainWindow = "open"
  /\ ~quit
  /\ mainWindow' = "destroyed"
  /\ replies' = << >>
  /\ handled' = Handled("none", "none", "none", << >>)
  /\ UNCHANGED << status, updater, sent, quit, pending >>

\* update:status
GetStatus ==
  /\ mainWindow # "null"
  /\ ~quit
  /\ replies' = << [NoReply EXCEPT !.request = "update:status", !.value = << status >>] >>
  /\ handled' = Handled("update:status", "none", "none", << >>)
  /\ UNCHANGED << status, mainWindow, updater, sent, quit, pending >>

\* update:version
GetCurrentVersion ==
  /\ mainWindow # "null"
  /\ ~quit
  /\ replies' = << [NoReply EXCEPT !.request = "update:version",
                                   !.value = << AppVersion >>] >>
  /\ handled' = Handled("update:version", "none", "none", << >>)
  /\ UNCHANGED << status, mainWindow, updater, sent, quit, pending >>

\* update:setChannel
SetChannel ==
  /\ mainWindow # "null"
  /\ ~quit
  /\ \E channel \in Channels : updater' = [updater EXCEPT !.channel = channel]
  /\ replies' = << [NoReply EXCEPT !.request = "update:setChannel", !.success = TRUE] >>
  /\ handled' = Handled("update:setChannel", "none", "none", << >>)
  /\ UNCHANGED << status, mainWindow, sent, quit, pending >>

\* update:setAutoDownload
SetAutoDownload ==
  /\ mainWindow # "null"
  /\ ~quit
  /\ \E enable \in BOOLEAN : updater' = [updater EXCEPT !.autoDownload = enable]
  /\ replies' = << [NoReply EXCEPT !.request = "update:setAutoDownload",
                                   !.success = TRUE] >>
  /\ handled' = Handled("update:setAutoDownload", "none", "none", << >>)
  /\ UNCHANGED << status, mainWindow, sent, quit, pending >>

\* update:check, up to the await in checkForUpdates(): electron-updater emits
\* 'checking-for-update' unless a check is already running, whose promise it
\* then returns
CheckForUpdates ==
  /\ mainWindow # "null"
  /\ ~quit
  /\ pending.check < MaxPending
  /\ pending' = [pending EXCEPT !.check = @ + 1]
  /\ replies' = << >>
  /\ IF updater.checking
       THEN /\ handled' = Handled("update:check", "checkForUpdates", "none", << >>)
            /\ UNCHANGED << status, updater, sent >>
       ELSE /\ handled' = Handled("update:check", "checkForUpdates", "checking-for-update",
                                 << >>)
            /\ updater' = [updater EXCEPT !.checking = TRUE]
            /\ UpdateStatus(Partial("checking", << >>, << >>, << >>),
                            "update:checking", << >>)
  /\ UNCHANGED << mainWindow, quit >>

\* update:check after the await, the check having succeeded: { success: true, info }
CheckReplies(info) ==
  Times(pending.check, [NoReply EXCEPT !.request = "update:check", !.success = TRUE,
                                       !.info = << info >>])

\* 'update-available'; the check is over, and the download starts when
\* autoDownload is set
UpdateAvailable ==
  /\ ~quit
  /\ updater.checking
  /\ \E info \in Infos :
       /\ updater' = [updater EXCEPT !.checking = FALSE, !.found = << info >>,
                                     !.downloaded = FALSE,
                                     !.downloading = @ \/ updater.autoDownload]
       /\ UpdateStatus(Partial("available", << info >>, << >>, << >>),
                       "update:available", << info >>)
       /\ replies' = CheckReplies(info)
       /\ handled' = Handled("none", "none", "update-available", << info >>)
  /\ pending' = [pending EXCEPT !.check = 0]
  /\ UNCHANGED << mainWindow, quit >>

\* 'update-not-available'; the check is over
UpdateNotAvailable ==
  /\ ~quit
  /\ updater.checking
  /\ \E info \in Infos :
       /\ updater' = [updater EXCEPT !.checking = FALSE, !.found = << >>]
       /\ UpdateStatus(Partial("not-available", << info >>, << >>, << >>),
                       "update:not-available", << info >>)
       /\ replies' = CheckReplies(info)
       /\ handled' = Handled("none", "none", "update-not-available", << info >>)
  /\ pending' = [pending EXCEPT !.check = 0]
  /\ UNCHANGED << mainWindow, quit >>

\* update:download after downloadUpdate() has thrown: { success: false, error }
DownloadFailedReply(message) ==
  [NoReply EXCEPT !.request = "update:download", !.success = FALSE,
                  !.error = << StringOfError(message) >>]

\* update:download writing the status itself when it starts the download
DownloadUpdateWritesStatus ==
  /\ mainWindow # "null"
  /\ ~quit
  /\ updater.found # << >>
  /\ pending.download < MaxPending
  /\ pending' = [pending EXCEPT !.download = @ + 1]
  /\ updater' = [updater EXCEPT !.downloading = TRUE]
  /\ replies' = << >>
  /\ handled' = Handled("update:download", "downloadUpdate", "none", << >>)
  /\ status' = [status EXCEPT !.status = "downloading"]
  /\ UNCHANGED << sent, mainWindow, quit >>

\* update:download, up to the await in downloadUpdate(): electron-updater starts the
\* download of the update it found, or joins the download in progress, or emits
\* 'error' and rejects when no check has found an update
DownloadUpdate ==
  /\ mainWindow # "null"
  /\ ~quit
  /\ IF updater.found = << >>
       THEN /\ UpdateStatus(Partial("error", << >>, << >>, << NoUpdateMessage >>),
                            "update:error", << NoUpdateMessage >>)
            /\ replies' = << DownloadFailedReply(NoUpdateMessage) >>
            /\ handled' = Handled("update:download", "downloadUpdate", "error",
                                 << NoUpdateMessage >>)
            /\ UNCHANGED << updater, pending >>
       ELSE /\ pending.download < MaxPending
            /\ pending' = [pending EXCEPT !.download = @ + 1]
            /\ updater' = [updater EXCEPT !.downloading = TRUE]
            /\ replies' = << >>
            /\ handled' = Handled("update:download", "downloadUpdate", "none", << >>)
            /\ UNCHANGED << status, sent >>
  /\ UNCHANGED << mainWindow, quit >>

\* 'download-progress'
DownloadProgress ==
  /\ ~quit
  /\ updater.downloading
  /\ \E progress \in Progresses :
       /\ UpdateStatus(Partial("downloading", << >>, << progress >>, << >>),
                       "update:progress", << progress >>)
       /\ handled' = Handled("none", "none", "download-progress", << progress >>)
  /\ replies' = << >>
  /\ UNCHANGED << updater, mainWindow, quit, pending >>

\* 'update-downloaded'; update:download after the await: { success: true }
UpdateDownloaded ==
  /\ ~quit
  /\ updater.downloading
  /\ updater' = [updater EXCEPT !.downloading = FALSE, !.downloaded = TRUE]
  /\ UpdateStatus(Partial("downloaded", updater.found, << >>, << >>),
                  "update:downloaded", updater.found)
  /\ replies' = Times(pending.download,
                      [NoReply EXCEPT !.request = "update:download", !.success = TRUE])
  /\ pending' = [pending EXCEPT !.download = 0]
  /\ handled' = Handled("none", "none", "update-downloaded", updater.found)
  /\ UNCHANGED << mainWindow, quit >>

\* update:check after checkForUpdates() has caught the failure and returned null
CheckFailedReply ==
  [NoReply EXCEPT !.request = "update:check", !.success = TRUE, !.info = << "null" >>]

\* 'error': the check or the download in progress fails, and its promise rejects
UpdaterError ==
  /\ ~quit
  /\ \E failed \in {"checking", "downloading"}, message \in ErrorMessages :
       /\ updater[failed]
       /\ updater' = [updater EXCEPT ![failed] = FALSE]
       /\ UpdateStatus(Partial("error", << >>, << >>, << message >>),
                       "update:error", << message >>)
       /\ IF failed = "checking"
            THEN /\ replies' = Times(pending.check, CheckFailedReply)
                 /\ pending' = [pending EXCEPT !.check = 0]
            ELSE /\ replies' = Times(pending.download, DownloadFailedReply(message))
                 /\ pending' = [pending EXCEPT !.download = 0]
       /\ handled' = Handled("none", "none", "error", << message >>)
  /\ UNCHANGED << mainWindow, quit >>

\* update:install: quitAndInstall() is called whatever the status; electron-updater
\* restarts the process when an update has been downloaded, otherwise it emits
\* 'error'
QuitAndInstall ==
  /\ mainWindow # "null"
  /\ ~quit
  /\ replies' = << [NoReply EXCEPT !.request = "update:install", !.success = TRUE] >>
  /\ IF updater.downloaded
       THEN /\ quit' = TRUE
            /\ handled' = Handled("update:install", "quitAndInstall", "none", << >>)
            /\ UNCHANGED << status, sent >>
       ELSE /\ UpdateStatus(Partial("error", << >>, << >>, << NoInstallMessage >>),
                            "update:error", << NoInstallMessage >>)
            /\ handled' = Handled("update:install", "quitAndInstall", "error",
                                 << NoInstallMessage >>)
            /\ UNCHANGED quit
  /\ UNCHANGED << updater, mainWindow, pending >>

(***************************************************************************)
(* Renderer update store (useUpdateStore) and the messages on their way    *)
(* from the main process to it                                             *)
(***************************************************************************)

\* calls of init() that may be made
MaxInits == 2

\* messages that may be on their way when the main process handles one more request
MaxInbox == 2

Inits == 1..MaxInits

VARIABLES
  rstore,        \* the state of useUpdateStore; null is << >>
  listeners,     \* how many times init() has registered the update:* listeners
  inits,         \* each call of init(): where it is suspended
  inbox,         \* messages sent to the renderer and not yet delivered, in order
  heard          \* the channels of the last two messages the listeners handled

rendererVars == << rstore, listeners, inits, inbox, heard >>

RendererInit ==
  /\ rstore = [status |-> "idle", currentVersion |-> "0.0.0", updateInfo |-> << >>,
               progress |-> << >>, error |-> << >>, isInitialized |-> FALSE]
  /\ listeners = 0
  /\ inits = [i \in Inits |-> "none"]
  /\ inbox = << >>
  /\ heard = << "none", "none" >>

\* `x || null` of an optional string: undefined and the empty string become null
OrNull(opt) == IF opt = << >> \/ opt = << "" >> THEN << >> ELSE opt

\* the reply of ipcRenderer.invoke as a message on its way to the renderer
ReplyMessage(reply) ==
  [channel |-> "reply", record |-> << reply >>, payload |-> << >>]

\* what a step of the main process sends to the renderer: the messages of the
\* event whose listener ran, then the replies to the requests it settled
Outbox ==
  (IF handled'.event # "none" THEN sent' ELSE << >>)
    \o [i \in 1..Len(replies') |-> ReplyMessage(replies'[i])]

\* a step of the main process, its messages queued for the renderer
FromMain(step) ==
  /\ mainWindow = "open"
  /\ Len(inbox) < MaxInbox
  /\ step
  /\ inbox' = inbox \o Outbox

\* the listener of update:status-changed; info and progress are objects, which
\* `|| null` leaves as they are
OnStatusChanged(st, record) ==
  [st EXCEPT !.status = record.status,
             !.updateInfo = record.info,
             !.progress = record.progress,
             !.error = OrNull(record.error)]

\* the listeners of the messages of the events
OnEvent(st, channel, payload) ==
  CASE channel = "update:checking" -> [st EXCEPT !.status = "checking", !.error = << >>]
    [] channel = "update:available" ->
         [st EXCEPT !.status = "available", !.updateInfo = payload]
    [] channel = "update:not-available" -> [st EXCEPT !.status = "not-available"]
    [] channel = "update:progress" ->
         [st EXCEPT !.status = "downloading", !.progress = payload]
    [] channel = "update:downloaded" ->
         [st EXCEPT !.status = "downloaded", !.updateInfo = payload,
                    !.progress = << >>]
    [] channel = "update:error" ->
         [st EXCEPT !.status = "error", !.error = payload, !.progress = << >>]
    [] OTHER -> st

\* checkForUpdates / downloadUpdate after the await: the reply says success false
OnReply(st, reply) ==
  IF reply.request \in {"update:check", "update:download"} /\ ~reply.success
    THEN [st EXCEPT !.status = "error",
                    !.error = IF OrNull(reply.error) # << >>
                                THEN reply.error
                                ELSE IF reply.request = "update:check"
                                  THEN << "Failed to check for updates" >>
                                  ELSE << "Failed to download update" >>]
    ELSE st

\* init() up to its first await: the isInitialized guard, then update:version is asked
InitBegin(i) ==
  /\ mainWindow = "open"
  /\ inits[i] = "none"
  /\ inits' = [inits EXCEPT ![i] = IF rstore.isInitialized THEN "done" ELSE "version"]
  /\ UNCHANGED << rstore, listeners, inbox, heard, updaterVars >>

\* init() from the reply of update:version to its second await: update:status is
\* asked, and its reply queued behind the messages already on their way
InitVersion(i) ==
  /\ inits[i] = "version"
  /\ FromMain(GetStatus)
  /\ rstore' = [rstore EXCEPT !.currentVersion = AppVersion]
  /\ inits' = [inits EXCEPT ![i] = "status"]
  /\ UNCHANGED << listeners, heard >>

\* init() from the reply of update:status to its end: the status is copied, the
\* listeners are registered, isInitialized is set
InitStatus(i) ==
  /\ inits[i] = "status"
  /\ inbox # << >>
  /\ Head(inbox).channel = "reply"
  /\ Head(inbox).record[1].request = "update:status"
  /\ inbox' = Tail(inbox)
  /\ rstore' = [OnStatusChanged(rstore, Head(inbox).record[1].value[1])
                  EXCEPT !.isInitialized = TRUE]
  /\ listeners' = listeners + 1
  /\ inits' = [inits EXCEPT ![i] = "done"]
  /\ heard' = << "none", "none" >>
  /\ UNCHANGED updaterVars

\* the reply of update:status at the head of the inbox is for a call of init()
StatusReplyAwaited ==
  /\ Head(inbox).channel = "reply"
  /\ Head(inbox).record[1].request = "update:status"

\* the message at the head of the inbox reaches the renderer: every registered
\* listener of its channel runs, or the awaiting action of the store resumes
Deliver ==
  /\ inbox # << >>
  /\ ~StatusReplyAwaited
  /\ inbox' = Tail(inbox)
  /\ LET msg == Head(inbox)
     IN IF msg.channel = "reply"
          THEN /\ rstore' = OnReply(rstore, msg.record[1])
               /\ heard' = << "none", "none" >>
          ELSE IF listeners = 0
            THEN /\ rstore' = rstore
                 /\ heard' = << "none", "none" >>
            ELSE /\ rstore' = IF msg.channel = "update:status-changed"
                                THEN OnStatusChanged(rstore, msg.record[1])
                                ELSE OnEvent(rstore, msg.channel, msg.payload)
                 /\ heard' = << heard[2], msg.channel >>
  /\ UNCHANGED << listeners, inits, updaterVars >>

\* checkForUpdates() of the store, up to its await
StoreCheckForUpdates ==
  /\ FromMain(CheckForUpdates)
  /\ rstore' = [rstore EXCEPT !.status = "checking", !.error = << >>]
  /\ heard' = << "none", "none" >>
  /\ UNCHANGED << listeners, inits >>

\* downloadUpdate() of the store, up to its await
StoreDownloadUpdate ==
  /\ FromMain(DownloadUpdate)
  /\ rstore' = [rstore EXCEPT !.status = "downloading", !.error = << >>]
  /\ heard' = << "none", "none" >>
  /\ UNCHANGED << listeners, inits >>

\* clearError()
ClearError ==
  /\ mainWindow = "open"
  /\ rstore.error # << >> \/ rstore.status # "idle"
  /\ rstore' = [rstore EXCEPT !.error = << >>, !.status = "idle"]
  /\ heard' = << "none", "none" >>
  /\ UNCHANGED << listeners, inits, inbox, updaterVars >>

\* an event of electron-updater: the listener of the controller runs and its
\* messages are queued for the renderer
UpdaterEvent ==
  /\ FromMain(\/ UpdateAvailable
              \/ UpdateNotAvailable
              \/ DownloadProgress
              \/ UpdateDownloaded
              \/ UpdaterError)
  /\ UNCHANGED << rstore, listeners, inits, heard >>

(***************************************************************************)
(* Chat input (ChatInput.tsx)                                              *)
(***************************************************************************)

\* length of the text that may be typed
MaxText == 3

\* attachments the list may hold
MaxAttachments == 2

\* calls of addFiles that may be reading their files at once
MaxReading == 1

\* code points that may be typed: line feed, space, "a"
TypedChars == {10, 32, 97}

\* the white space String.prototype.trim removes, below U+0080
WhiteSpace == {9, 10, 11, 12, 13, 32}

LineFeed == CHOOSE ch \in TypedChars : ch \in WhiteSpace /\ ch # 32

RECURSIVE TrimStart(_)
TrimStart(text) ==
  IF text # << >> /\ Head(text) \in WhiteSpace THEN TrimStart(Tail(text)) ELSE text

RECURSIVE TrimEnd(_)
TrimEnd(text) ==
  IF text # << >> /\ text[Len(text)] \in WhiteSpace
    THEN TrimEnd(SubSeq(text, 1, Len(text) - 1))
    ELSE text

\* String.prototype.trim
Trim(text) == TrimEnd(TrimStart(text))

ACCEPTED_IMAGE_TYPES == {"image/png", "image/jpeg", "image/gif", "image/webp"}

MAX_IMAGE_SIZE == 10 * 1024 * 1024

\* the file lists that may be picked, pasted or dropped: images, a text file,
\* an image larger than MAX_IMAGE_SIZE
FileLists ==
  LET File(name, type, size) == [name |-> name, type |-> type, size |-> size]
      PngFile == File("a.png", "image/png", 1024)
      GifFile == File("b.gif", "image/gif", 2048)
      TextFile == File("c.txt", "text/plain", 16)
      LargeFile == File("big.png", "image/png", MAX_IMAGE_SIZE + 1)
  IN { << PngFile >>, << GifFile >>, << PngFile, GifFile >>,
       << GifFile, TextFile, PngFile >>, << TextFile >>, << LargeFile, PngFile >> }

VARIABLES
  input,           \* the text of the textarea
  attachments,     \* the attachment list
  disabled,        \* prop
  sending,         \* prop
  reading,         \* the file lists of the addFiles calls awaiting Promise.all
  onSend,          \* the call of onSend the last step made, << >> when none
  chatEvent        \* the last step: the handler that ran, and the text handleSend
                   \* found

chatVars == << input, attachments, disabled, sending, reading, onSend, chatEvent >>

ChatEvent(kind, typed) == [kind |-> kind, typed |-> typed]

ChatInit ==
  /\ input = << >>
  /\ attachments = << >>
  /\ disabled = FALSE
  /\ sending = FALSE
  /\ reading = << >>
  /\ onSend = << >>
  /\ chatEvent = ChatEvent("none", << >>)

\* the parent renders the component with other props
SetProps ==
  /\ \E d \in BOOLEAN, sg \in BOOLEAN :
       /\ << d, sg >> # << disabled, sending >>
       /\ disabled' = d
       /\ sending' = sg
  /\ onSend' = << >>
  /\ chatEvent' = ChatEvent("props", << >>)
  /\ UNCHANGED << input, attachments, reading >>

\* onChange of the textarea: a character is typed
SetInput ==
  /\ ~disabled
  /\ Len(input) < MaxText
  /\ \E ch \in TypedChars : input' = Append(input, ch)
  /\ onSend' = << >>
  /\ chatEvent' = ChatEvent("change", << >>)
  /\ UNCHANGED << attachments, disabled, sending, reading >>

\* fileToAttachment resolves
Attachment(file) ==
  [type |-> "image", mimeType |-> file.type, fileName |-> file.name]

\* fileToAttachment rejects
Rejected(file) ==
  file.type \notin ACCEPTED_IMAGE_TYPES \/ file.size > MAX_IMAGE_SIZE

\* the filter of addFiles
Accepted(files) == SelectSeq(files, LAMBDA f : f.type \in ACCEPTED_IMAGE_TYPES)

\* addFiles up to `await Promise.all(...)`
AddFiles ==
  /\ Len(reading) < MaxReading
  /\ \E files \in FileLists :
       reading' = IF Accepted(files) = << >>
                    THEN reading
                    ELSE Append(reading, Accepted(files))
  /\ onSend' = << >>
  /\ chatEvent' = ChatEvent("addFiles", << >>)
  /\ UNCHANGED << input, attachments, disabled, sending >>

Without(seq, index) ==
  [i \in 1..(Len(seq) - 1) |-> IF i < index THEN seq[i] ELSE seq[i + 1]]

\* addFiles after the await: every file was read and the attachments are
\* appended, or one was rejected or could not be read and nothing is added
FilesRead ==
  /\ \E i \in 1..Len(reading), readable \in BOOLEAN :
       /\ reading' = Without(reading, i)
       /\ IF readable /\ \A k \in 1..Len(reading[i]) : ~Rejected(reading[i][k])
            THEN /\ Len(attachments) + Len(reading[i]) <= MaxAttachments
                 /\ attachments' = attachments
                                     \o [k \in 1..Len(reading[i]) |->
                                           Attachment(reading[i][k])]
            ELSE attachments' = attachments
  /\ onSend' = << >>
  /\ chatEvent' = ChatEvent("filesRead", << >>)
  /\ UNCHANGED << input, disabled, sending >>

RemoveAttachment ==
  /\ \E index \in 1..Len(attachments) : attachments' = Without(attachments, index)
  /\ onSend' = << >>
  /\ chatEvent' = ChatEvent("remove", << >>)
  /\ UNCHANGED << input, disabled, sending, reading >>

\* canSend as it would be if it did not look at sending
CanSendWhileSending(text, atts, isDisabled, isSending) ==
  (Trim(text) # << >> \/ Len(atts) > 0) /\ ~isDisabled

\* canSend
CanSend(text, atts, isDisabled, isSending) ==
  (Trim(text) # << >> \/ Len(atts) > 0) /\ ~isDisabled /\ ~isSending

\* handleSend
HandleSend ==
  IF ~CanSend(input, attachments, disabled, sending)
    THEN /\ onSend' = << >>
         /\ UNCHANGED << input, attachments >>
    ELSE /\ onSend' = << [text |-> Trim(input),
                          attachments |-> IF Len(attachments) > 0
                                            THEN << attachments >>
                                            ELSE << >>] >>
         /\ input' = << >>
         /\ attachments' = << >>

\* handleKeyDown for Enter; with Shift the textarea inserts a line break
HandleKeyDown ==
  /\ ~disabled
  /\ \E shiftKey \in BOOLEAN :
       IF ~shiftKey
         THEN /\ HandleSend
              /\ chatEvent' = ChatEvent("Enter", input)
         ELSE /\ input' = IF Len(input) < MaxText THEN Append(input, LineFeed) ELSE input
              /\ onSend' = << >>
              /\ chatEvent' = ChatEvent("Shift+Enter", << >>)
              /\ UNCHANGED attachments
  /\ UNCHANGED << disabled, sending, reading >>

\* onClick of the send button, which is disabled unless canSend
ClickSend ==
  /\ CanSend(input, attachments, disabled, sending)
  /\ HandleSend
  /\ chatEvent' = ChatEvent("click", input)
  /\ UNCHANGED << disabled, sending, reading >>

(***************************************************************************)
(* The key mask on its own: both renderings of one plaintext               *)
(***************************************************************************)

\* the longest plaintext whose mask is computed
MaxKeyLen == 16

\* the plaintexts: the pieces of KeyTest of at most MaxKeyLen characters
MaskInputs ==
  {SubSeq(KeyTest, p[1], p[2]) :
     p \in {q \in (1..Len(KeyTest)) \X (0..Len(KeyTest)) :
              q[2] >= q[1] - 1 /\ q[2] - q[1] + 1 <= MaxKeyLen}}

VARIABLES
  plaintext,     \* the decrypted key handed to the masking code
  rendering      \* its keyMasked by getProviderWithKeyInfo and by the list variant

maskVars == << plaintext, rendering >>

NoRendering == [done |-> FALSE, one |-> NullVal, inList |-> NullVal]

MaskIdle == plaintext = << >> /\ rendering = NoRendering

MaskInit == plaintext \in MaskInputs /\ rendering = NoRendering

MaskKey ==
  /\ ~rendering.done
  /\ rendering' = [done |-> TRUE,
                   one |-> KeyMasked(StrVal(plaintext)),
                   inList |-> KeyMaskedInList(StrVal(plaintext))]
  /\ UNCHANGED plaintext

(***************************************************************************)
(* Specifications                                                          *)
(***************************************************************************)

vars == << storeVars, updaterVars, maskVars, invoked, rendererVars, chatVars >>

Init == StoreInit /\ UpdaterInit /\ MaskIdle /\ invoked = 0 /\ RendererInit /\ ChatInit

\* the credential store, one call at a time
Next ==
  \/ Invoke /\ UNCHANGED << updaterVars, maskVars, invoked, rendererVars, chatVars >>
  \/ EncryptionBecomesAvailable
       /\ UNCHANGED << updaterVars, maskVars, invoked, rendererVars, chatVars >>
  \/ \E c \in Slots : ImportStore(c)
       /\ UNCHANGED << updaterVars, maskVars, invoked, rendererVars, chatVars >>
  \/ \E c \in Slots : ImportProviderStore(c)
       /\ UNCHANGED << updaterVars, maskVars, invoked, rendererVars, chatVars >>
  \/ \E c \in Slots : StoreApiKey(c)
       /\ UNCHANGED << updaterVars, maskVars, invoked, rendererVars, chatVars >>
  \/ \E c \in Slots : GetApiKey(c)
       /\ UNCHANGED << updaterVars, maskVars, invoked, rendererVars, chatVars >>
  \/ \E c \in Slots : DeleteApiKey(c)
       /\ UNCHANGED << updaterVars, maskVars, invoked, rendererVars, chatVars >>
  \/ \E c \in Slots : HasApiKey(c)
       /\ UNCHANGED << updaterVars, maskVars, invoked, rendererVars, chatVars >>
  \/ \E c \in Slots : ListStoredKeyIds(c)
       /\ UNCHANGED << updaterVars, maskVars, invoked, rendererVars, chatVars >>
  \/ \E c \in Slots : SaveProvider(c)
       /\ UNCHANGED << updaterVars, maskVars, invoked, rendererVars, chatVars >>
  \/ \E c \in Slots : GetProvider(c)
       /\ UNCHANGED << updaterVars, maskVars, invoked, rendererVars, chatVars >>
  \/ \E c \in Slots : GetAllProviders(c)
       /\ UNCHANGED << updaterVars, maskVars, invoked, rendererVars, chatVars >>
  \/ \E c \in Slots : DeleteProviderKey(c)
       /\ UNCHANGED << updaterVars, maskVars, invoked, rendererVars, chatVars >>
  \/ \E c \in Slots : DeleteProviderConfig(c)
       /\ UNCHANGED << updaterVars, maskVars, invoked, rendererVars, chatVars >>
  \/ \E c \in Slots : SetDefaultProvider(c)
       /\ UNCHANGED << updaterVars, maskVars, invoked, rendererVars, chatVars >>
  \/ \E c \in Slots : GetDefaultProvider(c)
       /\ UNCHANGED << updaterVars, maskVars, invoked, rendererVars, chatVars >>
  \/ \E c \in Slots : KeyInfoProvider(c)
       /\ UNCHANGED << updaterVars, maskVars, invoked, rendererVars, chatVars >>
  \/ \E c \in Slots : KeyInfoKey(c)
       /\ UNCHANGED << updaterVars, maskVars, invoked, rendererVars, chatVars >>
  \/ \E c \in Slots : AllKeyInfoProviders(c)
       /\ UNCHANGED << updaterVars, maskVars, invoked, rendererVars, chatVars >>
  \/ \E c \in Slots : AllKeyInfoKey(c)
       /\ UNCHANGED << updaterVars, maskVars, invoked, rendererVars, chatVars >>

Spec == Init /\ [][Next]_vars

\* the update controller
NextUpdater ==
  \/ RegisterUpdateHandlers
       /\ UNCHANGED << storeVars, maskVars, invoked, rendererVars, chatVars >>
  \/ WindowDestroyed /\ UNCHANGED << storeVars, maskVars, invoked, rendererVars, chatVars >>
  \/ CheckForUpdates /\ UNCHANGED << storeVars, maskVars, invoked, rendererVars, chatVars >>
  \/ UpdateAvailable /\ UNCHANGED << storeVars, maskVars, invoked, rendererVars, chatVars >>
  \/ UpdateNotAvailable /\ UNCHANGED << storeVars, maskVars, invoked, rendererVars, chatVars >>
  \/ DownloadUpdate /\ UNCHANGED << storeVars, maskVars, invoked, rendererVars, chatVars >>
  \/ DownloadProgress /\ UNCHANGED << storeVars, maskVars, invoked, rendererVars, chatVars >>
  \/ UpdateDownloaded /\ UNCHANGED << storeVars, maskVars, invoked, rendererVars, chatVars >>
  \/ UpdaterError /\ UNCHANGED << storeVars, maskVars, invoked, rendererVars, chatVars >>
  \/ QuitAndInstall /\ UNCHANGED << storeVars, maskVars, invoked, rendererVars, chatVars >>
  \/ GetStatus /\ UNCHANGED << storeVars, maskVars, invoked, rendererVars, chatVars >>
  \/ GetCurrentVersion /\ UNCHANGED << storeVars, maskVars, invoked, rendererVars, chatVars >>
  \/ SetChannel /\ UNCHANGED << storeVars, maskVars, invoked, rendererVars, chatVars >>
  \/ SetAutoDownload /\ UNCHANGED << storeVars, maskVars, invoked, rendererVars, chatVars >>

SpecUpdater == Init /\ [][NextUpdater]_vars

\* no call of a store or of safeStorage has thrown in a call in progress or in
\* the call that completed last
NoFault == last.fault = "none" /\ \A c \in Slots : calls[c].fault = "none"

\* the credential store, its writing functions overlapping at their awaits, no
\* store failing, the encryption mode the one of the start
NextOverlap ==
  \/ InvokeWriting /\ UNCHANGED << updaterVars, maskVars, rendererVars, chatVars >>
  \/ \E c \in Slots : ImportStore(c)
       /\ UNCHANGED << updaterVars, maskVars, invoked, rendererVars, chatVars >>
  \/ \E c \in Slots : ImportProviderStore(c)
       /\ UNCHANGED << updaterVars, maskVars, invoked, rendererVars, chatVars >>
  \/ \E c \in Slots : StoreApiKey(c) /\ NoFault'
       /\ UNCHANGED << updaterVars, maskVars, invoked, rendererVars, chatVars >>
  \/ \E c \in Slots : DeleteApiKey(c) /\ NoFault'
       /\ UNCHANGED << updaterVars, maskVars, invoked, rendererVars, chatVars >>
  \/ \E c \in Slots : SaveProvider(c) /\ NoFault'
       /\ UNCHANGED << updaterVars, maskVars, invoked, rendererVars, chatVars >>
  \/ \E c \in Slots :
       DeleteProviderKey(c) /\ NoFault'
            /\ UNCHANGED << updaterVars, maskVars, invoked, rendererVars, chatVars >>
  \/ \E c \in Slots :
       DeleteProviderConfig(c) /\ NoFault'
            /\ UNCHANGED << updaterVars, maskVars, invoked, rendererVars, chatVars >>

SpecOverlap == Init /\ [][NextOverlap]_vars

\* the key mask applied to each plaintext
InitMask == StoreInit /\ UpdaterInit /\ MaskInit /\ invoked = 0 /\ RendererInit /\ ChatInit

NextMask == MaskKey /\ UNCHANGED << storeVars, updaterVars, invoked, rendererVars, chatVars >>

SpecMask == InitMask /\ [][NextMask]_vars

\* the update controller and the renderer update store
NextRenderer ==
  \/ RegisterUpdateHandlers
       /\ UNCHANGED << storeVars, maskVars, invoked, rendererVars, chatVars >>
  \/ \E i \in Inits : InitBegin(i) /\ UNCHANGED << storeVars, maskVars, invoked, chatVars >>
  \/ \E i \in Inits : InitVersion(i) /\ UNCHANGED << storeVars, maskVars, invoked, chatVars >>
  \/ \E i \in Inits : InitStatus(i) /\ UNCHANGED << storeVars, maskVars, invoked, chatVars >>
  \/ Deliver /\ UNCHANGED << storeVars, maskVars, invoked, chatVars >>
  \/ StoreCheckForUpdates /\ UNCHANGED << storeVars, maskVars, invoked, chatVars >>
  \/ StoreDownloadUpdate /\ UNCHANGED << storeVars, maskVars, invoked, chatVars >>
  \/ ClearError /\ UNCHANGED << storeVars, maskVars, invoked, chatVars >>
  \/ UpdaterEvent /\ UNCHANGED << storeVars, maskVars, invoked, chatVars >>

SpecRenderer == Init /\ [][NextRenderer]_vars

\* the chat input
NextChat ==
  \/ SetProps /\ UNCHANGED << storeVars, updaterVars, maskVars, invoked, rendererVars >>
  \/ SetInput /\ UNCHANGED << storeVars, updaterVars, maskVars, invoked, rendererVars >>
  \/ AddFiles /\ UNCHANGED << storeVars, updaterVars, maskVars, invoked, rendererVars >>
  \/ FilesRead /\ UNCHANGED << storeVars, updaterVars, maskVars, invoked, rendererVars >>
  \/ RemoveAttachment
       /\ UNCHANGED << storeVars, updaterVars, maskVars, invoked, rendererVars >>
  \/ HandleKeyDown /\ UNCHANGED << storeVars, updaterVars, maskVars, invoked, rendererVars >>
  \/ ClickSend /\ UNCHANGED << storeVars, updaterVars, maskVars, invoked, rendererVars >>

SpecChat == Init /\ [][NextChat]_vars

(***************************************************************************)
(* Properties                                                              *)
(***************************************************************************)

\* how often x occurs in a sequence
Count(seq, x) == Cardinality({i \in 1..Len(seq) : seq[i] = x})

\* the mask of a key as section 4.1 of the specification words it
MaskRule(key) ==
  IF Len(key) > 12
    THEN SubSeq(key, 1, 4) \o [i \in 1..(Len(key) - 8) |-> Star]
           \o SubSeq(key, Len(key) - 3, Len(key))
    ELSE [i \in 1..Len(key) |-> Star]

\* the id's key was stored in the mode the platform is in now
SameMode(id) == written[id].set /\ written[id].available = encryptionAvailable

\* C1: a getApiKey(id) in which nothing threw, made after a successful
\* storeApiKey(id, key) with no later removal of the entry and in the same
\* encryption mode, returns exactly key, for every key
RoundTripEveryKey ==
  (last.op = "getApiKey" /\ last.fault = "none" /\ SameMode(last.id))
    => last.val = StrVal(written[last.id].key)

\* C2: after a deleteProvider(id) in which no store threw, hasApiKey(id) is false,
\* getProvider(id) is null, and getDefaultProvider() is undefined if id was the
\* default provider when the call was made
DeleteProviderRemovesKeyAndConfig ==
  (last.op = "deleteProvider" /\ last.fault = "none")
    => /\ last.ok
       /\ ~HasApiKeyCode(encryptedKeys, last.id)
       /\ GetProviderCode(providers, last.id) = << >>
       /\ last.wasDefault => defaultProvider = Undefined

\* C2 witness: a provider with a key and a config, and the default, was deleted
DeletedDefaultProviderWithKey ==
  /\ last.op = "deleteProvider" /\ last.fault = "none"
  /\ last.hadKey /\ last.hadConfig /\ last.wasDefault

\* C3: a deleteApiKey(id) in which the store does not throw returns true and
\* leaves no entry for id; made right after a successful deleteApiKey(id), or for
\* an id without an entry, it leaves the key map as it was
DeleteApiKeyIdempotent ==
  [][\A c \in Slots :
       (AtStore(c, "deleteApiKey") /\ last'.op = "deleteApiKey" /\ last'.fault = "none")
         => /\ last'.ok
            /\ ~HasApiKeyCode(encryptedKeys', calls[c].id)
            /\ (calls[c].again \/ ~HasApiKeyCode(encryptedKeys, calls[c].id))
                 => encryptedKeys' = encryptedKeys]_vars

\* C3 witness: deleteApiKey(id) has returned true twice in a row
DeletedTwice ==
  last.op = "deleteApiKey" /\ last.again /\ last.ok /\ last.fault = "none"

\* C4: no function of the credential store lets a failure of a store or of
\* safeStorage reach its caller
NoFailureReachesCaller == ~last.threw

\* decryptString throws in getApiKey(id): the platform rejects the buffer, or fails
DecryptFails(id, fault) ==
  /\ ReachesDecrypt(id)
  /\ fault = "crypto" \/ ~DecryptString(Base64Decode(ObjGet(encryptedKeys, id))).ok

\* C5: getApiKey(id) never throws and leaves the key map as it was; it returns
\* null when id has no entry and when decryptString throws, and then the entry
\* is still reported by hasApiKey and listStoredKeyIds
GetApiKeyAbsentOrUndecryptable ==
  [][\A c \in Slots :
       (AtStore(c, "getApiKey") /\ last'.op = "getApiKey")
         => /\ ~last'.threw
            /\ encryptedKeys' = encryptedKeys
            /\ ~ObjHas(encryptedKeys, calls[c].id) => last'.val = NullVal
            /\ DecryptFails(calls[c].id, last'.fault)
                 => /\ last'.val = NullVal
                    /\ HasApiKeyCode(encryptedKeys', calls[c].id)
                    /\ Count(ListStoredKeyIdsCode(encryptedKeys'), calls[c].id) = 1]_vars

\* C5 witness: getApiKey returned null for an entry the platform cannot decrypt
UndecryptableKeyRead ==
  /\ last.op = "getApiKey" /\ last.fault = "none" /\ last.val = NullVal
  /\ ReachesDecrypt(last.id)
  /\ ~DecryptString(Base64Decode(ObjGet(encryptedKeys, last.id))).ok

\* C6: a successful storeApiKey(id, k2) made right after a successful
\* storeApiKey(id, k1) leaves an entry from which getApiKey(id) returns k2, leaves
\* id exactly once in listStoredKeyIds(), and leaves every other entry as it was
OverwriteReplacesEntry ==
  [][\A c \in Slots :
       (AtStore(c, "storeApiKey") /\ calls[c].again
          /\ last'.op = "storeApiKey" /\ last'.ok)
         => /\ GetApiKeyCode(encryptedKeys', calls[c].id, encryptionAvailable, "none")
                 = StrVal(calls[c].key)
            /\ Count(ListStoredKeyIdsCode(encryptedKeys'), calls[c].id) = 1
            /\ \A other \in ProviderIds \ {calls[c].id} :
                 /\ ObjHas(encryptedKeys', other) = ObjHas(encryptedKeys, other)
                 /\ ObjHas(encryptedKeys, other)
                      => ObjGet(encryptedKeys', other) = ObjGet(encryptedKeys, other)]_vars

MaskedTestKey ==
  Codes(<< "s", "k", "-", "t", "*", "*", "*", "*", "*", "*", "*", "*", "*", "*",
           "7", "8", "9", "0" >>)

\* C8: getProviderWithKeyInfo(id) after a successful storeApiKey(id, key) reports
\* hasKey true and the mask of key, for every key ("sk-t**********7890" for
\* "sk-test-1234567890")
KeyInfoReportsStoredKey ==
  (last.op = "getProviderWithKeyInfo" /\ last.fault = "none" /\ last.infos # << >>
     /\ SameMode(last.id))
    => /\ last.infos[1].hasKey
       /\ last.infos[1].keyMasked = StrVal(MaskRule(written[last.id].key))
       /\ written[last.id].key = KeyTest
            => last.infos[1].keyMasked = StrVal(MaskedTestKey)

\* C9: while no call of the credential store is in progress, every id with a
\* stored key has a provider config
NoKeyWithoutConfigAtRest ==
  Quiescent => \A id \in ProviderIds :
                 ObjHas(encryptedKeys, id) => ObjHas(providers, id)

\* C10: from idle a check makes the status checking, the update found after it
\* makes the status available, and a status record that says available carries
\* no progress, neither in the controller nor in update:status-changed
AvailableNeverReportsProgress ==
  [][/\ (status.status = "idle" /\ CheckForUpdates) => status'.status = "checking"
     /\ UpdateAvailable => status'.status = "available"
     /\ status'.status = "available"
          => /\ status'.progress = << >>
             /\ \A i \in 1..Len(sent') :
                  sent'[i].channel = "update:status-changed"
                    => sent'[i].record[1].progress = << >>]_vars

\* C11: the listener of an updater failure, run in any status, leaves the status
\* error with the failure's message and a record without progress, whatever
\* download-progress events came before
ErrorClearsProgress ==
  [][handled'.event = "error"
       => /\ status'.status = "error"
          /\ status'.error = handled'.payload
          /\ status'.progress = << >>]_vars

\* C12: the status value changes only along the listed transitions
OnlyListedTransitions ==
  [][status'.status # status.status
       => \/ status'.status = "checking"
               /\ status.status \in {"idle", "not-available", "error"}
          \/ status'.status \in {"available", "not-available"}
               /\ status.status = "checking"
          \/ status'.status = "downloading"
               /\ status.status \in {"available", "downloading"}
          \/ status'.status = "downloaded" /\ status.status = "downloading"
          \/ status'.status = "error"]_vars

\* C13: update:download served while the status is available makes the status
\* downloading, and a progress event received while downloading changes nothing
\* of the record but its progress
DownloadRequestStartsDownloading ==
  [][/\ (handled'.request = "update:download" /\ status.status = "available")
          => status'.status = "downloading"
     /\ (handled'.event = "download-progress" /\ status.status = "downloading")
          => status' = [status EXCEPT !.progress = handled'.payload]]_vars

\* the status an event of electron-updater stands for in setupListeners
StatusOfEvent(event) ==
  CASE event = "checking-for-update" -> "checking"
    [] event = "update-available" -> "available"
    [] event = "update-not-available" -> "not-available"
    [] event = "download-progress" -> "downloading"
    [] event = "update-downloaded" -> "downloaded"
    [] event = "error" -> "error"
    [] OTHER -> "none"

\* C14: the status is always one of the seven values; no request of the UI
\* writes the record: update:status, update:version, update:setChannel and
\* update:setAutoDownload leave it as it is, and every step that changes it runs
\* the listener of an event of electron-updater, which sets the event's status
StatusWrittenOnlyByListeners ==
  [][/\ status'.status \in StatusValues
     /\ handled'.request \in {"update:status", "update:version", "update:setChannel",
                              "update:setAutoDownload"}
          => status' = status /\ handled'.event = "none"
     /\ handled'.event = "none" => status' = status
     /\ handled'.event # "none" => status'.status = StatusOfEvent(handled'.event)]_vars

\* C14 witness: update:download has been served while the status was available,
\* a status a listener wrote, and has left it available
DownloadServedWithoutEvent ==
  /\ handled.request = "update:download"
  /\ handled.event = "none"
  /\ status.status = "available"

EventChannels ==
  {"update:checking", "update:available", "update:not-available", "update:progress",
   "update:downloaded", "update:error"}

\* C15: a listener that runs while the main window is set and not destroyed sends
\* update:status-changed exactly once, with the whole record as it is after the
\* update, and sends it before the message of the event
StatusChangedSentFirst ==
  [][(handled'.event # "none" /\ mainWindow = "open")
       => /\ Len(sent') = 2
          /\ sent'[1].channel = "update:status-changed"
          /\ sent'[1].record = << status' >>
          /\ sent'[2].channel \in EventChannels
          /\ sent'[2].payload = handled'.payload]_vars

\* C15 witness: a progress event has been sent after an update was found
ProgressSentAfterAvailable ==
  /\ handled.event = "download-progress"
  /\ mainWindow = "open"
  /\ Len(sent) = 2
  /\ sent[1].record[1].info # << >>
  /\ sent[1].record[1].progress # << >>

\* C16: when the check or the download fails the status becomes error with a
\* message, and update:check served while the status is error makes it checking
FailureIsErrorAndCheckRecovers ==
  [][/\ handled'.event = "error"
          => status'.status = "error" /\ status'.error # << >>
     /\ (handled'.request = "update:check" /\ status.status = "error")
          => status'.status = "checking"]_vars

\* C17: update:check and update:download never reject; their reply says success
\* false with an error when the check or the download failed, and success true
\* only when it did not fail
RepliesReportFailure ==
  \A i \in 1..Len(replies) :
    replies[i].request \in {"update:check", "update:download"}
      => /\ ~replies[i].rejected
         /\ handled.event = "error"
              => ~replies[i].success /\ replies[i].error # << >>
         /\ replies[i].success => handled.event # "error"

\* C18: update:install restarts the process only when the status is downloaded
InstallOnlyWhenDownloaded ==
  [][(handled'.request = "update:install" /\ status.status # "downloaded")
       => ~quit']_vars

\* C19: once two storeApiKey calls for the same id and two keys that were in
\* progress at the same time have both returned true, getApiKey(id) returns the
\* key of the one that wrote last: never another value, never null
LastWriteWins ==
  \A id \in ProviderIds :
    (Quiescent /\ written[id].set /\ written[id].raced)
      => GetApiKeyCode(encryptedKeys, id, encryptionAvailable, "none")
           = StrVal(written[id].key)

\* C20: while deleteProvider(id) is in progress, the config of id is not already
\* removed with the key of id still stored
KeyRemovedBeforeConfig ==
  \A c \in Slots :
    calls[c].op = "deleteProvider"
      => ~(/\ calls[c].hadConfig
           /\ ~ObjHas(providers, calls[c].id)
           /\ ObjHas(encryptedKeys, calls[c].id))

\* C20 witness: deleteProvider(id) has removed the key of id and is about to
\* remove the config of id
KeyGoneConfigStillThere ==
  \E c \in Slots :
    /\ AtProviderStore(c, "deleteProvider")
    /\ calls[c].hadKey /\ calls[c].hadConfig
    /\ ~ObjHas(encryptedKeys, calls[c].id)
    /\ ObjHas(providers, calls[c].id)

\* C21: deleteProvider(id) returns true only when neither a key nor a config of
\* id is left; when removing the key fails it leaves the config and does not
\* return true
DeleteProviderTrueMeansBothRemoved ==
  (last.op = "deleteProvider" /\ last.ok)
    => /\ ~ObjHas(encryptedKeys, last.id)
       /\ ~ObjHas(providers, last.id)

\* C22: once a deleteProvider(id) and a storeApiKey(id, k) that were in progress
\* at the same time have both returned true, a key stored for id has a config
NoOrphanAfterOverlap ==
  (\/ last.op = "deleteProvider" /\ last.ok /\ last.raced
   \/ last.op = "storeApiKey" /\ last.ok /\ last.deleted)
    => (ObjHas(encryptedKeys, last.id) => ObjHas(providers, last.id))

\* what a successful storeApiKey of this key, made in this mode, stores
StoredForm(key, available) ==
  ObjGet(StoreApiKeyCode(<< >>, "id", key, available, "none").keys, "id")

\* the entry of id is the one its last successful storeApiKey wrote, and there is
\* none if there was no such call since the entry was last removed
EntryIsLastWrite(id) ==
  IF written[id].set
    THEN /\ ObjHas(encryptedKeys, id)
         /\ ObjGet(encryptedKeys, id) = StoredForm(written[id].key, written[id].available)
    ELSE ~ObjHas(encryptedKeys, id)

EventDelivered ==
  /\ rstore.isInitialized
  /\ inbox = << >>
  /\ heard[1] = "update:status-changed"
  /\ heard[2] \in EventChannels

\* C23: once update:status-changed and the message of the event have both been
\* delivered to an initialized store, its status, updateInfo, progress and error
\* are those of the status record of the controller
StoreEqualsRecordAfterEvent ==
  EventDelivered
    => /\ rstore.status = status.status
       /\ rstore.updateInfo = status.info
       /\ rstore.progress = status.progress
       /\ rstore.error = status.error

\* C25: the store holds an error only while its status is error
ErrorOnlyInStatusError ==
  rstore.error # << >> => rstore.status = "error"

\* C26: the listeners of the update:* messages are registered at most once,
\* however the calls of init() overlap
ListenersRegisteredOnce ==
  listeners <= 1

\* C27: each of the two backing stores is created at most once, also when the
\* first calls of several operations overlap
OneStoreObjectEach ==
  store <= 1 /\ providerStore <= 1

\* C28: when no call is in progress, defaultProvider is undefined or the id of a
\* stored provider config
DefaultProviderHasConfig ==
  (Quiescent /\ defaultProvider # Undefined) => ObjHas(providers, defaultProvider)

\* C29: when no call is in progress, hasApiKey(id) and the hasKey field of
\* getProviderWithKeyInfo(id) are equal for every id that has a config
HasApiKeyAgreesWithHasKey ==
  Quiescent
    => \A id \in ProviderIds :
         ObjHas(providers, id)
           => HasApiKeyCode(encryptedKeys, id)
                = KeyInfo(GetProviderCode(providers, id)[1],
                          GetApiKeyCode(encryptedKeys, id, encryptionAvailable,
                                        "none")).hasKey

\* C30: Enter without Shift and the send button call onSend exactly when the
\* trimmed text is not empty or an attachment is present, and neither disabled
\* nor sending is set; onSend gets the trimmed text and the attachment list in
\* its order, or undefined for an empty list; the text and the list are empty
\* afterwards; Shift+Enter and every other step call nothing
SendRule ==
  [][/\ chatEvent'.kind \in {"Enter", "click"}
          => IF (Trim(input) # << >> \/ attachments # << >>) /\ ~disabled /\ ~sending
               THEN /\ Len(onSend') = 1
                    /\ onSend'[1].text = Trim(input)
                    /\ onSend'[1].attachments
                         = (IF attachments = << >> THEN << >> ELSE << attachments >>)
                    /\ input' = << >>
                    /\ attachments' = << >>
               ELSE /\ onSend' = << >>
                    /\ input' = input
                    /\ attachments' = attachments
     /\ chatEvent'.kind \notin {"Enter", "click"} => onSend' = << >>
     /\ chatEvent'.kind = "Shift+Enter" => attachments' = attachments]_vars

\* C30 witness: Enter sent a text that trim shortened, with two attachments
SentTrimmedWithAttachments ==
  /\ chatEvent.kind = "Enter"
  /\ Len(onSend) = 1
  /\ onSend[1].text # chatEvent.typed
  /\ onSend[1].text # << >>
  /\ onSend[1].attachments # << >>
  /\ Len(onSend[1].attachments[1]) = 2
  /\ input = << >>
  /\ attachments = << >>

====
